---- MODULE Spec2Model ----
(***************************************************************************)
(* The token-lifecycle scheduler of polparse (src/main.py).                *)
(*                                                                         *)
(* One asyncio event loop runs three kinds of coroutine:                   *)
(*   main                  - the scheduler loop (lines 134-151),           *)
(*   poll_upcoming_tokens  - the discovery loop (lines 51-87),             *)
(*   monitor_token_release - one task per activated token (lines 91-130).  *)
(* The feed and the Telegram calls are the synchronous curl_cffi calls     *)
(* requests.get / requests.post: they contain no await, so everything      *)
(* between two `await asyncio.sleep(..)` of a coroutine runs without any   *)
(* other task taking a step.  Each such stretch is one action here.        *)
(*                                                                         *)
(* Time is in whole seconds since the process started.  A feed record's    *)
(* start_time is the instant its ISO-8601 text denotes after ensure_utc.   *)
(***************************************************************************)
EXTENDS Integers, Sequences, FiniteSets, Bags, TLC

VARIABLES
    now,              \* the wall clock, datetime.datetime.now(datetime.UTC)
    USER_IDS,         \* line 19: the configured recipients, fixed at start-up
    WATCHED_TOKENS,   \* line 25: token_id -> info dict
    mainPc,           \* main: "start" (not yet run) or "sleep"
    mainWake,         \* main: the instant its sleep(30) ends
    pollPc,           \* poll_upcoming_tokens: "none", "ready" or "sleep"
    pollWake,         \* poll_upcoming_tokens: the instant its sleep ends
    monPc,            \* per token: "none", "created", "waiting", "sleep", "done";
                      \* under StallSpec also "calling" and "stalled"
    monWake,          \* per token: the instant the monitor's sleep ends
    sent,             \* bag of the calls of send_telegram_message so far
    admits,           \* per token: times lines 68-75 ran for it
    admittedAt,       \* per token: the clock read at line 60 when it was admitted
    spawns,           \* per token: times line 150 created a monitor for it
    releases,         \* per token: times line 126 ran for it
    passes,           \* runs so far of each loop body (bounded below)
    polls,            \* per token: monitor fetches so far
    pollErrors,       \* per token: monitor fetches that raised
    event             \* the step just taken and what happened in it

vars == <<now, USER_IDS, WATCHED_TOKENS, mainPc, mainWake, pollPc, pollWake,
          monPc, monWake, sent, admits, admittedAt, spawns, releases, passes,
          polls, pollErrors, event>>

----------------------------------------------------------------------------
(* Bounds of the model. *)

MaxIds == 2

MaxUsers == 2

MaxBatch == 2

MaxDiscPasses == 2

MaxSchedPasses == 3

MaxPolls == 2

\* The seconds a feed request that stalls takes to return.
MaxStall == 45

----------------------------------------------------------------------------
(* Program constants. *)

DISCOVERY_INTERVAL == 10800

SCHEDULER_INTERVAL == 30

POLL_INTERVAL == 2

LEAD_TIME == 60

LOOKAHEAD == 3600

----------------------------------------------------------------------------
(* The feed. *)

TokenIds == 1..MaxIds

\* A record without the "_id" key.
NoId == 0

\* A record without a usable "start_time" (absent, or not ISO-8601 text).
NoStart == -1

\* A record without the "name" / "symbol" key.
NoField == "<absent>"

\* contract_address: null or absent.
AddrNone == "<None>"

\* contract_address: a truthy value that is not a string (a number).
AddrNumber == "<int>"

StartTimes == {0, 20, 3630, 3631, 14400}

Addresses == {AddrNone, "", " ", "0xABC", AddrNumber}

\* Records of the is_upcoming=true page, as far as discovery reads them: for
\* each token one record per start time and one without a usable start time,
\* and a record without "_id".  The records of the latest start time come
\* without "name" and "symbol".
UpcomingRecords ==
    {[_id |-> i, start_time |-> s,
      name |-> IF s = 14400 THEN NoField ELSE "TestToken",
      symbol |-> IF s = 14400 THEN NoField ELSE "TST",
      contract_address |-> AddrNone] : i \in TokenIds, s \in StartTimes \cup {NoStart}}
    \cup {[_id |-> NoId, start_time |-> 20, name |-> "TestToken", symbol |-> "TST",
           contract_address |-> AddrNone]}

\* Records of the unfiltered page, as far as the monitor of token tid reads them.
ListedRecords(tid) ==
    {[_id |-> tid, start_time |-> 30, name |-> "TestToken", symbol |-> "TST",
      contract_address |-> a] : a \in Addresses}
    \cup {[_id |-> i, start_time |-> 30, name |-> "TestToken", symbol |-> "TST",
           contract_address |-> "0xABC"] : i \in (TokenIds \cup {NoId}) \ {tid}}

SeqsUpTo(S, n) == UNION {[1..k -> S] : k \in 0..n}

\* A response: the fetch or its JSON decoding raised (ok = FALSE), or "items".
FetchError == [ok |-> FALSE, items |-> <<>>]

Responses(S) == {FetchError} \cup {[ok |-> TRUE, items |-> q] : q \in SeqsUpTo(S, MaxBatch)}

\* What a fetch of the is_upcoming=true page can return.
UpcomingResponses == Responses(UpcomingRecords)

\* What a fetch of the unfiltered page by the monitor of token tid can return.
ListedResponses == [tid \in TokenIds |-> Responses(ListedRecords(tid))]

----------------------------------------------------------------------------
(* Helpers of the source. *)

\* dict.get(key, "?")
Get(v) == IF v = NoField THEN "?" ELSE v

\* Python truthiness of a contract_address value.
Truthy(a) == a # AddrNone /\ a # ""

IsStr(a) == a # AddrNone /\ a # AddrNumber

\* str.strip()
Strip(a) == IF a = " " THEN "" ELSE a

Range(f) == {f[x] : x \in DOMAIN f}

\* Notify with the except of line 46 around the loop rather than inside the
\* call: the first failing send ends the loop over USER_IDS.
Notify_StopsAtFailure(bag, kind, tid, name, symbol, addr, time, failTo) ==
    bag (+) [m \in {[kind |-> kind, tid |-> tid, to |-> USER_IDS[k],
                     name |-> name, symbol |-> symbol, addr |-> addr,
                     time |-> time] :
                    k \in {n \in DOMAIN USER_IDS :
                             \A j \in 1..(n - 1) : USER_IDS[j] \notin failTo}} |-> 1]

\* The loops over `USER_IDS or [0]`: with no recipient configured the
\* message goes to a fallback chat id.
Notify_FallbackRecipient(bag, kind, tid, name, symbol, addr, time, failTo) ==
    bag (+) [m \in {[kind |-> kind, tid |-> tid, to |-> u,
                     name |-> name, symbol |-> symbol, addr |-> addr,
                     time |-> time] :
                    u \in IF USER_IDS = << >> THEN {0} ELSE Range(USER_IDS)} |-> 1]

\* Lines 80-84 and 121-125: send_telegram_message for every uid of USER_IDS,
\* in order.  failTo holds the recipients for which requests.post (or
\* raise_for_status) raises during this step; line 46 catches that inside the
\* call, so the call returns normally and the loop goes on to the next uid.
Notify(bag, kind, tid, name, symbol, addr, time, failTo) ==
    bag (+) [m \in {[kind |-> kind, tid |-> tid, to |-> USER_IDS[k],
                     name |-> name, symbol |-> symbol, addr |-> addr,
                     time |-> time] : k \in DOMAIN USER_IDS} |-> 1]

\* The number of send_telegram_message calls of a kind made for token tid to
\* recipient to.
Sends(kind, tid, to) ==
    LET hit == {m \in DOMAIN sent : m.kind = kind /\ m.tid = tid /\ m.to = to}
    IN BagCardinality([m \in hit |-> sent[m]])

\* The recipients a step sent to: those of the calls added to the bag.
SentTo(before, after) ==
    {m.to : m \in {x \in DOMAIN after : CopiesIn(x, after) > CopiesIn(x, before)}}

----------------------------------------------------------------------------
(* The state after the module is loaded and before asyncio.run(main()). *)

\* Line 19-21: TELEGRAM_USER_IDS unset, or a list of distinct ids.
UserConfigs == {<< >>, [k \in 1..MaxUsers |-> k]}

\* What `event` records of the step just taken:
\*   fetched - the step called requests.get and got a decoded "items" list
\*   raised  - the step's try block ended in its except clause
\*   seen    - tokens of the records the for loop examined
\*   stale   - tokens not watched, examined with a start_time not after the clock
\*   missed  - tokens of the records after the one that raised which the loop,
\*             had it gone on, would have admitted (discovery) or released
\*             (monitor)
\*   failed  - recipients for which a send_telegram_message call failed
\*   cause   - the record (its _id and contract_address) for which the monitor
\*             ran lines 118-126 in this step, if it did
\*   differs - watched tokens examined with a start_time, name or symbol other
\*             than the stored one
Quiet(op, tid) ==
    [op |-> op, tid |-> tid, fetched |-> FALSE, raised |-> FALSE, seen |-> {},
     stale |-> {}, missed |-> {}, failed |-> {}, cause |-> {}, differs |-> {}]

Init ==
    /\ now = 0
    /\ USER_IDS \in UserConfigs
    /\ WATCHED_TOKENS = << >>
    /\ mainPc = "start"
    /\ mainWake = 0
    /\ pollPc = "none"
    /\ pollWake = 0
    /\ monPc = [i \in TokenIds |-> "none"]
    /\ monWake = [i \in TokenIds |-> 0]
    /\ sent = EmptyBag
    /\ admits = [i \in TokenIds |-> 0]
    /\ admittedAt = [i \in TokenIds |-> NoStart]
    /\ spawns = [i \in TokenIds |-> 0]
    /\ releases = [i \in TokenIds |-> 0]
    /\ passes = [main |-> 0, poll |-> 0, pollFailed |-> 0]
    /\ polls = [i \in TokenIds |-> 0]
    /\ pollErrors = [i \in TokenIds |-> 0]
    /\ event = Quiet("init", NoId)

----------------------------------------------------------------------------
(* Which tasks the event loop can resume at the current instant.  The loop *)
(* bodies are bounded: a task that has used up its bound stays suspended.  *)

MainRunnable ==
    /\ mainPc = "start" \/ (mainPc = "sleep" /\ now >= mainWake)
    /\ passes.main < MaxSchedPasses

PollRunnable ==
    /\ pollPc = "ready" \/ (pollPc = "sleep" /\ now >= pollWake)
    /\ passes.poll < MaxDiscPasses

MonitorRunnable(tid) ==
    \/ monPc[tid] = "created"
    \/ /\ monPc[tid] \in {"waiting", "sleep"}
       /\ now >= monWake[tid]
       /\ WATCHED_TOKENS[tid].contract_address_sent \/ polls[tid] < MaxPolls

\* The instants at which a suspended task is due to resume.
Deadlines ==
    (IF mainPc = "sleep" /\ passes.main < MaxSchedPasses THEN {mainWake} ELSE {})
    \cup (IF pollPc = "sleep" /\ passes.poll < MaxDiscPasses THEN {pollWake} ELSE {})
    \cup {monWake[i] : i \in {j \in TokenIds :
              /\ monPc[j] \in {"waiting", "sleep"}
              /\ WATCHED_TOKENS[j].contract_address_sent \/ polls[j] < MaxPolls}}

----------------------------------------------------------------------------
(* poll_upcoming_tokens: one iteration of its while loop. *)

\* Lines 63-66: token["_id"], token["start_time"] and fromisoformat succeed.
Readable(r) == r._id # NoId /\ r.start_time # NoStart

\* Whether record r shows other data than the entry stored for its token.
Differs(info, r) ==
    \/ r.start_time # info.start_time
    \/ Get(r.name) # info.name
    \/ Get(r.symbol) # info.symbol

\* Line 67 as an upsert: a watched token whose record shows another
\* start_time is stored again.
ShouldAdmit_Refresh(W, r, t) ==
    /\ r._id \notin DOMAIN W \/ W[r._id].start_time # r.start_time
    /\ r.start_time > t

\* Line 67 without its membership test.
ShouldAdmit_NoMembership(W, r, t) == r.start_time > t

\* Line 67 with >= for >.
ShouldAdmit_NotBefore(W, r, t) == r._id \notin DOMAIN W /\ r.start_time >= t

\* Line 67.
ShouldAdmit(W, r, t) == r._id \notin DOMAIN W /\ r.start_time > t

\* Lines 68-75.
NewInfo(r) ==
    [start_time |-> r.start_time, notified |-> FALSE,
     contract_address_sent |-> FALSE, monitoring_started |-> FALSE,
     name |-> Get(r.name), symbol |-> Get(r.symbol)]

\* Lines 68-75 without lines 80-84: the insertion alone.
AdmitRecord_Silent(st, r, t, failTo) ==
    [st EXCEPT
       !.W = [i \in DOMAIN st.W \cup {r._id} |-> IF i = r._id THEN NewInfo(r) ELSE st.W[i]],
       !.admits = [@ EXCEPT ![r._id] = @ + 1],
       !.admittedAt = [@ EXCEPT ![r._id] = t]]

\* Lines 68-84 for one record: the insertion and the "Watching" messages.
AdmitRecord(st, r, t, failTo) ==
    [st EXCEPT
       !.W = [i \in DOMAIN st.W \cup {r._id} |-> IF i = r._id THEN NewInfo(r) ELSE st.W[i]],
       !.sent = Notify(st.sent, "watching", r._id, Get(r.name), Get(r.symbol),
                       AddrNone, r.start_time, failTo),
       !.admits = [@ EXCEPT ![r._id] = @ + 1],
       !.admittedAt = [@ EXCEPT ![r._id] = t]]

\* The tokens the loop would have admitted from the records after record k.
MissedAdmissions(items, k, W, t) ==
    {items[j]._id : j \in {n \in (k + 1)..Len(items) :
                             Readable(items[n]) /\ ShouldAdmit(W, items[n], t)}}

\* The for loop with lines 80-84 one level out, after the if of line 67: the
\* "Watching" messages go out for every record examined.
RECURSIVE DiscoverItems_NotifyAll(_, _, _, _, _)
DiscoverItems_NotifyAll(items, k, st, t, failTo) ==
    IF k > Len(items) THEN st
    ELSE IF ~Readable(items[k])
         THEN [st EXCEPT !.raised = TRUE,
                         !.missed = MissedAdmissions(items, k, st.W, t)]
    ELSE LET r    == items[k]
             here == [st EXCEPT !.seen = @ \cup {r._id}]
             told == [here EXCEPT !.sent = Notify(@, "watching", r._id, Get(r.name),
                                                  Get(r.symbol), AddrNone,
                                                  r.start_time, failTo)]
         IN IF ShouldAdmit(st.W, r, t)
            THEN DiscoverItems_NotifyAll(items, k + 1, AdmitRecord(here, r, t, failTo),
                                         t, failTo)
            ELSE DiscoverItems_NotifyAll(items, k + 1, told, t, failTo)

\* Lines 62-84: the for loop from record k on.  token["_id"] and
\* token["start_time"] raise for a record without them (KeyError, or ValueError
\* from fromisoformat); the except of line 85 then ends the whole loop.
RECURSIVE DiscoverItems(_, _, _, _, _)
DiscoverItems(items, k, st, t, failTo) ==
    IF k > Len(items) THEN st
    ELSE IF ~Readable(items[k])
         THEN [st EXCEPT !.raised = TRUE,
                         !.missed = MissedAdmissions(items, k, st.W, t)]
    ELSE LET r    == items[k]
             here == [st EXCEPT
                        !.seen = @ \cup {r._id},
                        !.stale = IF r._id \notin DOMAIN st.W /\ ~(r.start_time > t)
                                  THEN @ \cup {r._id} ELSE @,
                        !.differs = IF r._id \in DOMAIN st.W /\ Differs(st.W[r._id], r)
                                    THEN @ \cup {r._id} ELSE @]
         IN IF ShouldAdmit(st.W, r, t)
            THEN DiscoverItems(items, k + 1, AdmitRecord(here, r, t, failTo), t, failTo)
            ELSE DiscoverItems(items, k + 1, here, t, failTo)

\* Lines 53-86: the try block, from the fetch to the end of the for loop.
Discover(resp, t, failTo) ==
    LET st0 == [W |-> WATCHED_TOKENS, sent |-> sent, admits |-> admits,
                admittedAt |-> admittedAt, raised |-> FALSE, seen |-> {},
                stale |-> {}, missed |-> {}, differs |-> {}]
    IN IF resp.ok THEN DiscoverItems(resp.items, 1, st0, t, failTo)
       ELSE [st0 EXCEPT !.raised = TRUE]

\* Line 87 moved inside the try block: an error skips the sleep.
DiscoverAgainAt_RetryOnError(st, t) == IF st.raised THEN t ELSE t + DISCOVERY_INTERVAL

\* Line 87: the sleep follows the try block, whatever the block did (st).
DiscoverAgainAt(st, t) == t + DISCOVERY_INTERVAL

poll_upcoming_tokens(resp, failTo) ==
    /\ PollRunnable
    /\ LET st == Discover(resp, now, failTo)
       IN /\ WATCHED_TOKENS' = st.W
          /\ sent' = st.sent
          /\ admits' = st.admits
          /\ admittedAt' = st.admittedAt
          /\ pollWake' = DiscoverAgainAt(st, now)
          /\ event' = [op |-> "poll_upcoming_tokens", tid |-> NoId,
                       fetched |-> resp.ok, raised |-> st.raised, seen |-> st.seen,
                       stale |-> st.stale, missed |-> st.missed,
                       failed |-> failTo \cap SentTo(sent, st.sent), cause |-> {},
                       differs |-> st.differs]
    /\ pollPc' = "sleep"
    /\ passes' = [passes EXCEPT !.poll = @ + 1,
                                !.pollFailed = IF resp.ok THEN @ ELSE @ + 1]
    /\ UNCHANGED <<now, USER_IDS, mainPc, mainWake, monPc, monWake, spawns,
                   releases, polls, pollErrors>>

----------------------------------------------------------------------------
(* main: one iteration of its while loop (the first one follows the        *)
(* create_task of line 137).                                               *)

\* Lines 142-145 with <= for <.
ShouldActivate_Inclusive(info, t) ==
    ~info.monitoring_started /\ info.start_time - t <= LOOKAHEAD

\* Lines 142-145 with a test that the start is still ahead.
ShouldActivate_FutureOnly(info, t) ==
    /\ ~info.monitoring_started
    /\ info.start_time > t
    /\ info.start_time - t < LOOKAHEAD

\* Lines 142-145.
ShouldActivate(info, t) == ~info.monitoring_started /\ info.start_time - t < LOOKAHEAD

\* Line 146 left out.
Activate_Forgets(info) == info

\* Line 146.
Activate(info) == [info EXCEPT !.monitoring_started = TRUE]

main ==
    /\ MainRunnable
    /\ LET due == {i \in DOMAIN WATCHED_TOKENS : ShouldActivate(WATCHED_TOKENS[i], now)}
       IN /\ WATCHED_TOKENS' = [i \in DOMAIN WATCHED_TOKENS |->
                                  IF i \in due THEN Activate(WATCHED_TOKENS[i])
                                  ELSE WATCHED_TOKENS[i]]
          /\ monPc' = [i \in TokenIds |-> IF i \in due THEN "created" ELSE monPc[i]]
          /\ spawns' = [i \in TokenIds |-> IF i \in due THEN spawns[i] + 1 ELSE spawns[i]]
    /\ pollPc' = IF mainPc = "start" THEN "ready" ELSE pollPc
    /\ mainPc' = "sleep"
    /\ mainWake' = now + SCHEDULER_INTERVAL
    /\ passes' = [passes EXCEPT !.main = @ + 1]
    /\ event' = Quiet("main", NoId)
    /\ UNCHANGED <<now, USER_IDS, pollWake, monWake, sent, admits, admittedAt,
                   releases, polls, pollErrors>>

----------------------------------------------------------------------------
(* monitor_token_release(token_id, token_info): token_info is the dict     *)
(* stored in WATCHED_TOKENS[token_id], shared by reference.                *)

\* Line 93 with the lead taken as sixty minutes rather than sixty seconds.
WaitSeconds_HourLead(info, t) == (info.start_time - t) - LEAD_TIME * 60

\* Line 93.
WaitSeconds(info, t) == (info.start_time - t) - LEAD_TIME

\* Lines 113-117 without the strip() of line 116.
AddressPresent_Untrimmed(a) == Truthy(a) /\ IsStr(a)

\* Lines 113-117.
AddressPresent(a) == Truthy(a) /\ IsStr(a) /\ Strip(a) # ""

\* Line 111, and lines 113-117 inside it.
Matches(r, tid) ==
    r._id = tid /\ Truthy(r.contract_address) /\ AddressPresent(r.contract_address)

\* Lines 118-126 for the matching record: the "released" messages, the flag.
ReleaseRecord(st, r, tid, failTo) ==
    [st EXCEPT
       !.info = [@ EXCEPT !.contract_address_sent = TRUE],
       !.sent = Notify(st.sent, "released", tid, Get(r.name), Get(r.symbol),
                       r.contract_address, st.info.start_time, failTo),
       !.releases = @ + 1,
       !.cause = {[_id |-> r._id, contract_address |-> r.contract_address]}]

\* Whether a record after record k would have released the token.
MissedRelease(items, k, tid) ==
    IF \E n \in (k + 1)..Len(items) : items[n]._id # NoId /\ Matches(items[n], tid)
    THEN {tid} ELSE {}

\* The for loop without the break of line 127.
RECURSIVE MonitorItems_NoBreak(_, _, _, _, _)
MonitorItems_NoBreak(items, k, st, tid, failTo) ==
    IF k > Len(items) THEN st
    ELSE IF items[k]._id = NoId
         THEN [st EXCEPT !.raised = TRUE, !.missed = MissedRelease(items, k, tid)]
    ELSE LET here == [st EXCEPT !.seen = @ \cup {items[k]._id}]
         IN IF Matches(items[k], tid)
            THEN MonitorItems_NoBreak(items, k + 1,
                                      ReleaseRecord(here, items[k], tid, failTo),
                                      tid, failTo)
            ELSE MonitorItems_NoBreak(items, k + 1, here, tid, failTo)

\* Lines 110-127: the for loop from record k on.  token["_id"] raises KeyError
\* for a record without it and the except of line 128 ends the loop; the break
\* of line 127 ends it after the first record that releases the token.
RECURSIVE MonitorItems(_, _, _, _, _)
MonitorItems(items, k, st, tid, failTo) ==
    IF k > Len(items) THEN st
    ELSE IF items[k]._id = NoId
         THEN [st EXCEPT !.raised = TRUE, !.missed = MissedRelease(items, k, tid)]
    ELSE LET here == [st EXCEPT !.seen = @ \cup {items[k]._id}]
         IN IF Matches(items[k], tid)
            THEN ReleaseRecord(here, items[k], tid, failTo)
            ELSE MonitorItems(items, k + 1, here, tid, failTo)

\* The try block with an except clause that clears monitoring_started, so
\* that the scheduler would start the monitor anew after an error.
Monitor_RestartOnError(tid, resp, failTo) ==
    LET st0 == [info |-> WATCHED_TOKENS[tid], sent |-> sent,
                releases |-> releases[tid], raised |-> FALSE, seen |-> {},
                missed |-> {}, cause |-> {}]
        st  == IF resp.ok THEN MonitorItems(resp.items, 1, st0, tid, failTo)
               ELSE [st0 EXCEPT !.raised = TRUE]
    IN IF st.raised THEN [st EXCEPT !.info.monitoring_started = FALSE] ELSE st

\* Lines 104-129: the try block of one iteration of the polling loop.
Monitor(tid, resp, failTo) ==
    LET st0 == [info |-> WATCHED_TOKENS[tid], sent |-> sent,
                releases |-> releases[tid], raised |-> FALSE, seen |-> {},
                missed |-> {}, cause |-> {}]
    IN IF resp.ok THEN MonitorItems(resp.items, 1, st0, tid, failTo)
       ELSE [st0 EXCEPT !.raised = TRUE]

\* One iteration of the polling loop with the try around the while loop
\* rather than inside it: an error ends the task.
PollOnce_EndsOnError(tid, resp, failTo) ==
    LET st == Monitor(tid, resp, failTo)
    IN /\ WATCHED_TOKENS' = [WATCHED_TOKENS EXCEPT ![tid] = st.info]
       /\ sent' = st.sent
       /\ releases' = [releases EXCEPT ![tid] = st.releases]
       /\ polls' = [polls EXCEPT ![tid] = @ + 1]
       /\ pollErrors' = [pollErrors EXCEPT ![tid] = IF st.raised THEN @ + 1 ELSE @]
       /\ monPc' = [monPc EXCEPT ![tid] = IF st.raised THEN "done" ELSE "sleep"]
       /\ monWake' = [monWake EXCEPT ![tid] = now + POLL_INTERVAL]
       /\ event' = [op |-> "monitor_poll", tid |-> tid, fetched |-> resp.ok,
                    raised |-> st.raised, seen |-> st.seen, stale |-> {},
                    missed |-> st.missed,
                    failed |-> failTo \cap SentTo(sent, st.sent), cause |-> st.cause,
                    differs |-> {}]
       /\ UNCHANGED <<now, USER_IDS, mainPc, mainWake, pollPc, pollWake, admits,
                      admittedAt, spawns, passes>>

\* Line 130 moved inside the try block: an error skips the sleep.
PollAgainAt_SkippedOnError(st, t) == IF st.raised THEN t ELSE t + POLL_INTERVAL

\* Line 130: the sleep follows the try block, whatever the block did (st).
PollAgainAt(st, t) == t + POLL_INTERVAL

\* Lines 104-130: one iteration of the polling loop.
PollOnce(tid, resp, failTo) ==
    LET st == Monitor(tid, resp, failTo)
    IN /\ WATCHED_TOKENS' = [WATCHED_TOKENS EXCEPT ![tid] = st.info]
       /\ sent' = st.sent
       /\ releases' = [releases EXCEPT ![tid] = st.releases]
       /\ polls' = [polls EXCEPT ![tid] = @ + 1]
       /\ pollErrors' = [pollErrors EXCEPT ![tid] = IF st.raised THEN @ + 1 ELSE @]
       /\ monPc' = [monPc EXCEPT ![tid] = "sleep"]
       /\ monWake' = [monWake EXCEPT ![tid] = PollAgainAt(st, now)]
       /\ event' = [op |-> "monitor_poll", tid |-> tid, fetched |-> resp.ok,
                    raised |-> st.raised, seen |-> st.seen, stale |-> {},
                    missed |-> st.missed,
                    failed |-> failTo \cap SentTo(sent, st.sent), cause |-> st.cause,
                    differs |-> {}]
       /\ UNCHANGED <<now, USER_IDS, mainPc, mainWake, pollPc, pollWake, admits,
                      admittedAt, spawns, passes>>

\* Lines 92-98: the task starts and suspends until LEAD_TIME before the start.
monitor_wait(tid) ==
    /\ monPc[tid] = "created"
    /\ WaitSeconds(WATCHED_TOKENS[tid], now) > 0
    /\ monPc' = [monPc EXCEPT ![tid] = "waiting"]
    /\ monWake' = [monWake EXCEPT ![tid] = now + WaitSeconds(WATCHED_TOKENS[tid], now)]
    /\ event' = Quiet("monitor_wait", tid)
    /\ UNCHANGED <<now, USER_IDS, WATCHED_TOKENS, mainPc, mainWake, pollPc, pollWake,
                   sent, admits, admittedAt, spawns, releases, passes, polls,
                   pollErrors>>

\* Lines 92-130 when wait_seconds <= 0: the task starts and polls at once.
monitor_start(tid, resp, failTo) ==
    /\ monPc[tid] = "created"
    /\ WaitSeconds(WATCHED_TOKENS[tid], now) <= 0
    /\ ~WATCHED_TOKENS[tid].contract_address_sent
    /\ polls[tid] < MaxPolls
    /\ PollOnce(tid, resp, failTo)

\* Lines 103-130: the task wakes, finds the flag unset and polls.
monitor_poll(tid, resp, failTo) ==
    /\ monPc[tid] \in {"waiting", "sleep"}
    /\ now >= monWake[tid]
    /\ ~WATCHED_TOKENS[tid].contract_address_sent
    /\ polls[tid] < MaxPolls
    /\ PollOnce(tid, resp, failTo)

\* Line 103: the task wakes, finds the flag set and returns.
monitor_exit(tid) ==
    /\ monPc[tid] \in {"waiting", "sleep"}
    /\ now >= monWake[tid]
    /\ WATCHED_TOKENS[tid].contract_address_sent
    /\ monPc' = [monPc EXCEPT ![tid] = "done"]
    /\ event' = Quiet("monitor_exit", tid)
    /\ UNCHANGED <<now, USER_IDS, WATCHED_TOKENS, mainPc, mainWake, pollPc, pollWake,
                   monWake, sent, admits, admittedAt, spawns, releases, passes,
                   polls, pollErrors>>

----------------------------------------------------------------------------
(* Time.  A step of a task takes no time at this granularity; the clock    *)
(* moves when every task is suspended, to the next instant at which a      *)
(* sleep ends.  Tasks whose sleeps end at the same instant run in any      *)
(* order.                                                                  *)

Tick ==
    /\ ~MainRunnable /\ ~PollRunnable /\ \A i \in TokenIds : ~MonitorRunnable(i)
    /\ Deadlines # {}
    /\ now' = CHOOSE t \in Deadlines : \A u \in Deadlines : t <= u
    /\ event' = Quiet("tick", NoId)
    /\ UNCHANGED <<USER_IDS, WATCHED_TOKENS, mainPc, mainWake, pollPc, pollWake,
                   monPc, monWake, sent, admits, admittedAt, spawns, releases,
                   passes, polls, pollErrors>>

----------------------------------------------------------------------------

\* What the messaging service can do during a step: fail for any of the
\* configured recipients.
Failures == SUBSET Range(USER_IDS)

Next ==
    \/ main
    \/ \E resp \in UpcomingResponses, failTo \in Failures :
          poll_upcoming_tokens(resp, failTo)
    \/ \E tid \in TokenIds : monitor_wait(tid)
    \/ \E tid \in TokenIds : \E resp \in ListedResponses[tid], failTo \in Failures :
          monitor_start(tid, resp, failTo)
    \/ \E tid \in TokenIds : \E resp \in ListedResponses[tid], failTo \in Failures :
          monitor_poll(tid, resp, failTo)
    \/ \E tid \in TokenIds : monitor_exit(tid)
    \/ Tick

Spec == Init /\ [][Next]_vars

\* The pages considered here: a failed fetch, or one record.
OneRecord(S) == {FetchError} \cup {[ok |-> TRUE, items |-> <<r>>] : r \in S}

\* The instant of the last scheduler pass considered.
LastPass == (MaxSchedPasses - 1) * SCHEDULER_INTERVAL

\* The is_upcoming=true pages considered under LiveSpec: those of well-formed
\* records of tokens whose look-ahead window opens by the last scheduler pass
\* considered.
LiveUpcomingResponses ==
    Responses({r \in UpcomingRecords :
                 Readable(r) /\ r.start_time - LastPass < LOOKAHEAD})

\* Monitoring has been started for token i: line 146 has set its flag and
\* line 150 has created its task.
Started(i) ==
    /\ i \in DOMAIN WATCHED_TOKENS
    /\ WATCHED_TOKENS[i].monitoring_started
    /\ spawns[i] = 1
    /\ monPc[i] # "none"

LiveNext ==
    \/ main
    \/ \E resp \in LiveUpcomingResponses : poll_upcoming_tokens(resp, {})
    \/ \E tid \in TokenIds : monitor_wait(tid)
    \/ \E tid \in TokenIds : \E resp \in OneRecord(ListedRecords(tid)) :
          monitor_start(tid, resp, {})
    \/ \E tid \in TokenIds : \E resp \in OneRecord(ListedRecords(tid)) :
          monitor_poll(tid, resp, {})
    \/ \E tid \in TokenIds : monitor_exit(tid)
    \/ Tick

\* asyncio.run (line 156): the event loop resumes a task that is ready and
\* fires the timer that is due next, so a step is taken whenever one can be.
LiveSpec == Init /\ [][LiveNext]_vars /\ WF_vars(LiveNext)

----------------------------------------------------------------------------
(* The feed request seen as taking time.  requests.get (line 105) is the    *)
(* synchronous call of curl_cffi and is not awaited: from the moment a      *)
(* monitor issues it until it returns, the thread of the event loop is      *)
(* inside the call and the loop resumes no other task, while the clock      *)
(* goes on.  Spec above is the case in which every request returns at       *)
(* once.                                                                    *)

\* No task is inside a feed request.
NoCall == \A i \in TokenIds : monPc[i] \notin {"calling", "stalled"}

\* Lines 103-105: the monitor finds the flag unset and issues the request.
monitor_call(tid) ==
    /\ NoCall
    /\ \/ monPc[tid] = "created" /\ WaitSeconds(WATCHED_TOKENS[tid], now) <= 0
       \/ monPc[tid] \in {"waiting", "sleep"} /\ now >= monWake[tid]
    /\ ~WATCHED_TOKENS[tid].contract_address_sent
    /\ polls[tid] < MaxPolls
    /\ monPc' = [monPc EXCEPT ![tid] = "calling"]
    /\ event' = Quiet("monitor_call", tid)
    /\ UNCHANGED <<now, USER_IDS, WATCHED_TOKENS, mainPc, mainWake, pollPc, pollWake,
                   monWake, sent, admits, admittedAt, spawns, releases, passes,
                   polls, pollErrors>>

\* Line 105: the request does not return for MaxStall seconds.
call_stall(tid) ==
    /\ monPc[tid] = "calling"
    /\ monPc' = [monPc EXCEPT ![tid] = "stalled"]
    /\ now' = now + MaxStall
    /\ event' = Quiet("call_stall", tid)
    /\ UNCHANGED <<USER_IDS, WATCHED_TOKENS, mainPc, mainWake, pollPc, pollWake,
                   monWake, sent, admits, admittedAt, spawns, releases, passes,
                   polls, pollErrors>>

\* Lines 105-130: the request returns (or raises) and the iteration goes on
\* to its sleep.
monitor_return(tid, resp, failTo) ==
    /\ monPc[tid] \in {"calling", "stalled"}
    /\ PollOnce(tid, resp, failTo)

\* The steps of the event loop: those of the other tasks are taken only when
\* no task is inside a request.
StallNext ==
    \/ NoCall /\ main
    \/ NoCall /\ \E resp \in OneRecord(UpcomingRecords) : poll_upcoming_tokens(resp, {})
    \/ NoCall /\ \E tid \in TokenIds : monitor_wait(tid)
    \/ NoCall /\ \E tid \in TokenIds : monitor_exit(tid)
    \/ NoCall /\ Tick
    \/ \E tid \in TokenIds : monitor_call(tid)
    \/ \E tid \in TokenIds : call_stall(tid)
    \/ \E tid \in TokenIds : \E resp \in OneRecord(ListedRecords(tid)) :
          monitor_return(tid, resp, {})

\* The run without recipients.
StallInit == Init /\ USER_IDS = << >>

StallSpec == StallInit /\ [][StallNext]_vars

----------------------------------------------------------------------------
(* Properties. *)

\* C1: a token is admitted at most once, whatever the number of discovery
\* passes that list it and however often one response lists it: lines 68-75
\* run at most once per token, and the registry holds a token exactly when
\* they have run for it.
C1_AdmittedAtMostOnce ==
    \A i \in TokenIds :
        /\ admits[i] <= 1
        /\ (i \in DOMAIN WATCHED_TOKENS) <=> (admits[i] = 1)

\* A second discovery pass has just examined a token admitted by the first.
C1_Witness ==
    /\ event.op = "poll_upcoming_tokens"
    /\ passes.poll = 2
    /\ \E i \in event.seen : admits[i] = 1 /\ admittedAt[i] < now

\* C2: every entry of the registry has a start_time strictly after the clock
\* read by the pass that admitted it; a record examined with a start_time at
\* or before that clock is not inserted (its token is in the registry after
\* the pass only if another record of the same pass, with a later start_time,
\* admitted it).
C2_FutureOnlyAdmission ==
    /\ \A i \in DOMAIN WATCHED_TOKENS :
          admittedAt[i] # NoStart /\ WATCHED_TOKENS[i].start_time > admittedAt[i]
    /\ event.op = "poll_upcoming_tokens" =>
          \A i \in event.stale :
              i \in DOMAIN WATCHED_TOKENS =>
                  admittedAt[i] = now /\ WATCHED_TOKENS[i].start_time > now

\* A pass at clock 0 has examined a record whose start_time is 0, the clock
\* itself, and the token is not in the registry.
C2_Witness ==
    /\ event.op = "poll_upcoming_tokens"
    /\ now = 0
    /\ \E i \in event.stale : i \notin DOMAIN WATCHED_TOKENS

\* C3: at most one monitor task is ever created per token: line 150 runs at
\* most once for it, exactly when monitoring_started has been set.
C3_AtMostOneMonitor ==
    \A i \in TokenIds :
        /\ spawns[i] <= 1
        /\ (spawns[i] = 1) <=>
              (i \in DOMAIN WATCHED_TOKENS /\ WATCHED_TOKENS[i].monitoring_started)
        /\ (spawns[i] = 1) <=> (monPc[i] # "none")

\* A scheduler pass has just run over an entry whose monitor an earlier pass
\* created (the monitor has already taken steps).
C3_Witness ==
    /\ event.op = "main"
    /\ \E i \in TokenIds : spawns[i] = 1 /\ monPc[i] \notin {"none", "created"}

\* C4: the release is notified exactly once: line 126 runs at most once per
\* token, every recipient has been sent as many "released" messages for the
\* token as line 126 ran (none or one), and the flag is set exactly then.
C4_ReleasedExactlyOnce ==
    \A i \in TokenIds :
        /\ releases[i] <= 1
        /\ \A u \in Range(USER_IDS) : Sends("released", i, u) = releases[i]
        /\ IF i \in DOMAIN WATCHED_TOKENS
           THEN WATCHED_TOKENS[i].contract_address_sent <=> (releases[i] = 1)
           ELSE releases[i] = 0

\* A monitor has finished after a poll that did not show the address and a
\* later one that did, with recipients configured.
C4_Witness ==
    /\ USER_IDS # << >>
    /\ \E i \in TokenIds :
          monPc[i] = "done" /\ polls[i] >= 2 /\ pollErrors[i] = 0 /\ releases[i] = 1

\* C5: a scheduler pass creates a monitor for an entry only if the entry's
\* monitoring_started is unset and start_time - now < 3600, and it leaves an
\* entry with start_time - now >= 3600 as it was.
C5_LookAheadGating ==
    [][\A i \in TokenIds :
          /\ spawns'[i] > spawns[i] =>
                /\ i \in DOMAIN WATCHED_TOKENS
                /\ ~WATCHED_TOKENS[i].monitoring_started
                /\ WATCHED_TOKENS[i].start_time - now < LOOKAHEAD
          /\ (/\ passes'.main > passes.main
              /\ i \in DOMAIN WATCHED_TOKENS
              /\ WATCHED_TOKENS[i].start_time - now >= LOOKAHEAD) =>
                /\ WATCHED_TOKENS'[i] = WATCHED_TOKENS[i]
                /\ monPc'[i] = monPc[i]
                /\ spawns'[i] = spawns[i]]_vars

\* A scheduler pass has just run over an entry starting exactly 3600 s later
\* and one starting 3601 s later, and both are still unmonitored.
C5_Witness ==
    /\ event.op = "main"
    /\ \E i, j \in DOMAIN WATCHED_TOKENS :
          /\ WATCHED_TOKENS[i].start_time - now = LOOKAHEAD
          /\ WATCHED_TOKENS[j].start_time - now = LOOKAHEAD + 1
          /\ ~WATCHED_TOKENS[i].monitoring_started /\ monPc[i] = "none"
          /\ ~WATCHED_TOKENS[j].monitoring_started /\ monPc[j] = "none"

\* C6: a record that lacks a field does not keep the records after it from
\* being processed: no record after it that the loop would have admitted
\* (discovery) or taken as the release (monitor) is left out of the pass.
C6_BadRecordIsolated == event.missed = {}

\* C7: every recipient has been sent exactly one "watching" message for each
\* token of the registry and none for any other token.
C7_WatchingNotifiedOnce ==
    \A i \in TokenIds, u \in Range(USER_IDS) :
        Sends("watching", i, u) = IF i \in DOMAIN WATCHED_TOKENS THEN 1 ELSE 0

\* A pass has just admitted one token and turned down a record of another,
\* with recipients configured.
C7_Witness ==
    /\ USER_IDS # << >>
    /\ event.op = "poll_upcoming_tokens"
    /\ \E i \in DOMAIN WATCHED_TOKENS : admittedAt[i] = now
    /\ \E j \in event.stale : j \notin DOMAIN WATCHED_TOKENS

\* C8: a poll that raises sends nothing, leaves the entry as it was with the
\* flag unset, and leaves the monitor due to poll again POLL_INTERVAL later;
\* a monitor never finishes with the flag unset.
C8_MonitorSurvivesErrors ==
    [][/\ (event'.op = "monitor_poll" /\ event'.raised) =>
             /\ sent' = sent
             /\ WATCHED_TOKENS' = WATCHED_TOKENS
             /\ ~WATCHED_TOKENS'[event'.tid].contract_address_sent
             /\ monPc'[event'.tid] = "sleep"
             /\ monWake'[event'.tid] = now' + POLL_INTERVAL
       /\ \A i \in TokenIds :
             monPc'[i] = "done" => WATCHED_TOKENS'[i].contract_address_sent]_vars

\* A monitor has finished, released, after a poll of it raised.
C8_Witness ==
    \E i \in TokenIds : pollErrors[i] >= 1 /\ releases[i] = 1 /\ monPc[i] = "done"

\* C9: a discovery pass whose fetch fails changes neither the registry nor
\* the messages sent and leaves the loop asleep for DISCOVERY_INTERVAL; no
\* pass starts before the sleep of the one before it has ended.
C9_FailedFetchHarmless ==
    [][passes'.poll > passes.poll =>
          /\ pollPc = "sleep" => now >= pollWake
          /\ ~event'.fetched =>
                /\ WATCHED_TOKENS' = WATCHED_TOKENS
                /\ sent' = sent
                /\ pollPc' = "sleep"
                /\ pollWake' = now' + DISCOVERY_INTERVAL]_vars

\* The first pass failed and the second one, DISCOVERY_INTERVAL later, has
\* just admitted a token.
C9_Witness ==
    /\ event.op = "poll_upcoming_tokens" /\ event.fetched
    /\ passes.poll = 2 /\ passes.pollFailed = 1
    /\ now >= DISCOVERY_INTERVAL
    /\ \E i \in DOMAIN WATCHED_TOKENS : admittedAt[i] = now

\* C10: a failed send changes nothing else: the step that had a send fail
\* has still sent to every recipient, has still admitted the token (set the
\* released flag), and has left its loop asleep for the usual interval; and
\* no recipient is ever sent a second "released" message for a token.
C10_SendFailureIsolated ==
    /\ \A i \in TokenIds, u \in Range(USER_IDS) : Sends("released", i, u) <= 1
    /\ (event.op = "poll_upcoming_tokens" /\ event.failed # {}) =>
          /\ pollPc = "sleep" /\ pollWake = now + DISCOVERY_INTERVAL
          /\ \E i \in TokenIds : admittedAt[i] = now
          /\ \A i \in TokenIds :
                admittedAt[i] = now =>
                    /\ i \in DOMAIN WATCHED_TOKENS
                    /\ \A u \in Range(USER_IDS) : Sends("watching", i, u) = 1
    /\ (event.op = "monitor_poll" /\ event.failed # {}) =>
          /\ WATCHED_TOKENS[event.tid].contract_address_sent
          /\ \A u \in Range(USER_IDS) : Sends("released", event.tid, u) = 1
          /\ monPc[event.tid] = "sleep"
          /\ monWake[event.tid] = now + POLL_INTERVAL

\* A poll has just released a token although the send to the first of two
\* recipients failed.
C10_Witness ==
    /\ event.op = "monitor_poll"
    /\ Len(USER_IDS) >= 2
    /\ USER_IDS[1] \in event.failed
    /\ WATCHED_TOKENS[event.tid].contract_address_sent

\* C11: both flags of an entry are monotone: no step of the discovery loop,
\* the scheduler or a monitor removes an entry or takes monitoring_started or
\* contract_address_sent of an entry from set back to unset.
C11_FlagsMonotone ==
    [][\A i \in DOMAIN WATCHED_TOKENS :
          /\ i \in DOMAIN WATCHED_TOKENS'
          /\ WATCHED_TOKENS[i].monitoring_started => WATCHED_TOKENS'[i].monitoring_started
          /\ WATCHED_TOKENS[i].contract_address_sent =>
                WATCHED_TOKENS'[i].contract_address_sent]_vars

\* A discovery pass has just examined a record of a token whose monitor has
\* had a poll raise and has since released it: both flags are still set.
C11_Witness ==
    /\ event.op = "poll_upcoming_tokens"
    /\ \E i \in event.seen :
          /\ i \in DOMAIN WATCHED_TOKENS
          /\ pollErrors[i] >= 1
          /\ WATCHED_TOKENS[i].monitoring_started
          /\ WATCHED_TOKENS[i].contract_address_sent

\* C12: a monitor never fetches the feed earlier than LEAD_TIME before the
\* stored start_time.  When it starts with (start_time - now) - LEAD_TIME > 0
\* it suspends, without a fetch, until exactly start_time - LEAD_TIME;
\* otherwise its first fetch happens in the step in which it starts, at the
\* same instant.
C12_LeadTimeGating ==
    [][\A i \in TokenIds :
          /\ polls'[i] > polls[i] => now >= WATCHED_TOKENS[i].start_time - LEAD_TIME
          /\ (monPc[i] = "created" /\ monPc'[i] # "created") =>
                IF (WATCHED_TOKENS[i].start_time - now) - LEAD_TIME > 0
                THEN /\ monPc'[i] = "waiting"
                     /\ monWake'[i] = WATCHED_TOKENS[i].start_time - LEAD_TIME
                     /\ polls'[i] = polls[i]
                ELSE /\ polls'[i] = polls[i] + 1
                     /\ now' = now]_vars

\* A monitor has just made its first fetch exactly LEAD_TIME before a start
\* that was further away when it was created, and the monitor of a token
\* that starts within LEAD_TIME of the process start has fetched as well.
C12_Witness ==
    /\ event.op = "monitor_poll"
    /\ polls[event.tid] = 1
    /\ now > SCHEDULER_INTERVAL * 2
    /\ now = WATCHED_TOKENS[event.tid].start_time - LEAD_TIME
    /\ \E j \in DOMAIN WATCHED_TOKENS :
          WATCHED_TOKENS[j].start_time <= LEAD_TIME /\ polls[j] >= 1

\* C13: a token that a successful discovery fetch lists with a future start
\* proceeds through the lifecycle: it is in the registry when the pass that
\* listed it ends, and a poll whose response shows a usable address for the
\* token releases it.
C13_ListedTokenProceeds ==
    /\ (event.op = "poll_upcoming_tokens" /\ event.fetched) =>
          \A i \in event.missed : i \in DOMAIN WATCHED_TOKENS
    /\ (event.op = "monitor_poll" /\ event.fetched) =>
          \A i \in event.missed : WATCHED_TOKENS[i].contract_address_sent

\* C14: a token is released (the flag set, line 126 run, "released" messages
\* sent) only by a poll of its own monitor that found a record carrying the
\* token's own _id and a contract_address that is a string and not empty
\* after trimming; a poll that found no such record changes neither the
\* registry nor the messages sent.
C14_ReleaseCriterion ==
    [][/\ \A i \in DOMAIN WATCHED_TOKENS :
             (~WATCHED_TOKENS[i].contract_address_sent
                /\ WATCHED_TOKENS'[i].contract_address_sent) =>
                   event'.op = "monitor_poll" /\ event'.tid = i
       /\ (/\ event'.op = "monitor_poll"
           /\ \/ sent' # sent
              \/ releases' # releases
              \/ WATCHED_TOKENS' # WATCHED_TOKENS) =>
             /\ event'.fetched
             /\ \E c \in event'.cause :
                   /\ c._id = event'.tid
                   /\ c.contract_address \notin {AddrNone, AddrNumber, "", " "}]_vars

\* A poll has just examined a record of its own token and a record of the
\* other token, which carries an address, and has not released: the address
\* of its own record was absent, null, empty, blank or not a string.
C14_Witness ==
    /\ event.op = "monitor_poll"
    /\ event.fetched /\ ~event.raised
    /\ event.seen = TokenIds
    /\ ~WATCHED_TOKENS[event.tid].contract_address_sent
    /\ releases[event.tid] = 0

\* C15: no task blocks another: while a monitor is inside a feed request
\* that has not returned, the scheduler can take its pass as soon as its
\* sleep has ended, and every other monitor that is due can take its step.
C15_NoTaskBlocksAnother ==
    (\E i \in TokenIds : monPc[i] \in {"calling", "stalled"}) =>
        /\ MainRunnable => ENABLED (StallNext /\ passes'.main > passes.main)
        /\ \A j \in TokenIds :
              MonitorRunnable(j) =>
                  ENABLED (StallNext /\ monPc'[j] # monPc[j])

\* C16: with no recipient configured no send_telegram_message call is ever
\* made and no send fails, while the lifecycle is what it is otherwise: a
\* pass that admits does not raise for lack of recipients, and the poll that
\* finds the address sets the flag without raising.
C16_NoRecipientsNoMessages ==
    USER_IDS = << >> =>
        /\ sent = EmptyBag
        /\ event.failed = {}
        /\ \A i \in TokenIds : (admits[i] = 1) <=> (i \in DOMAIN WATCHED_TOKENS)
        /\ (event.op = "poll_upcoming_tokens" /\ event.fetched /\ ~event.raised) =>
              \A i \in event.seen \ event.stale : i \in DOMAIN WATCHED_TOKENS
        /\ (event.op = "monitor_poll" /\ event.cause # {}) =>
              /\ ~event.raised
              /\ WATCHED_TOKENS[event.tid].contract_address_sent
              /\ releases[event.tid] = 1

\* Without recipients a token has been admitted, its monitor created, the
\* address found and the monitor finished.
C16_Witness ==
    /\ USER_IDS = << >>
    /\ sent = EmptyBag
    /\ \E i \in DOMAIN WATCHED_TOKENS :
          /\ admits[i] = 1 /\ spawns[i] = 1 /\ releases[i] = 1
          /\ WATCHED_TOKENS[i].contract_address_sent
          /\ monPc[i] = "done"

\* C17: an entry is never removed and its start_time, name and symbol never
\* change, whatever later passes list for its token; every "released"
\* message carries the start_time stored at admission.
C17_EntriesSetOnce ==
    [][/\ \A i \in DOMAIN WATCHED_TOKENS :
             /\ i \in DOMAIN WATCHED_TOKENS'
             /\ WATCHED_TOKENS'[i].start_time = WATCHED_TOKENS[i].start_time
             /\ WATCHED_TOKENS'[i].name = WATCHED_TOKENS[i].name
             /\ WATCHED_TOKENS'[i].symbol = WATCHED_TOKENS[i].symbol
       /\ \A m \in DOMAIN sent' :
             m.kind = "released" => m.time = WATCHED_TOKENS'[m.tid].start_time]_vars

\* The second discovery pass has just listed a released token with another
\* start_time, name or symbol than the stored one, and recipients have been
\* sent the "released" message.
C17_Witness ==
    /\ event.op = "poll_upcoming_tokens"
    /\ passes.poll = 2
    /\ USER_IDS # << >>
    /\ \E i \in event.differs :
          WATCHED_TOKENS[i].contract_address_sent /\ admittedAt[i] < now

\* C18: a monitor finishes only when it has released its token, and once it
\* has released it, it makes no further fetch and finishes.
C18_TerminatesIffReleased ==
    /\ [](\A i \in TokenIds :
             monPc[i] = "done" =>
                 releases[i] = 1 /\ WATCHED_TOKENS[i].contract_address_sent)
    /\ [][\A i \in TokenIds : releases[i] >= 1 => polls'[i] = polls[i]]_vars
    /\ \A i \in TokenIds : (releases[i] >= 1) ~> (monPc[i] = "done")

\* One monitor has finished while the other, whose fetches never showed the
\* address or raised, has used all the polls considered and is still asleep
\* between two polls, its token unreleased.
C18_Witness ==
    \E i, j \in TokenIds :
        /\ monPc[i] = "done"
        /\ monPc[j] = "sleep"
        /\ polls[j] = MaxPolls /\ pollErrors[j] >= 1
        /\ ~WATCHED_TOKENS[j].contract_address_sent

\* C19: a scheduler pass leaves every entry with start_time - now < LOOKAHEAD
\* activated, its monitor created, whether or not the start has passed; and
\* every entry of the registry is eventually activated.
C19_EventuallyActivated ==
    /\ [][passes'.main > passes.main =>
             \A i \in DOMAIN WATCHED_TOKENS :
                 WATCHED_TOKENS[i].start_time - now < LOOKAHEAD =>
                     /\ WATCHED_TOKENS'[i].monitoring_started
                     /\ spawns'[i] = 1
                     /\ monPc'[i] # "none"]_vars
    /\ \A i \in TokenIds : (i \in DOMAIN WATCHED_TOKENS) ~> Started(i)

\* A scheduler pass has just created the monitor of an entry whose start had
\* passed, while an entry whose window opens only at the next pass is left
\* for that pass.
C19_Witness ==
    /\ event.op = "main"
    /\ \E i, j \in DOMAIN WATCHED_TOKENS :
          /\ monPc[i] = "created" /\ WATCHED_TOKENS[i].start_time < now
          /\ monPc[j] = "none" /\ WATCHED_TOKENS[j].start_time - now >= LOOKAHEAD

\* C20: the lifecycle is ordered.  A released entry has monitoring_started
\* set, and a token whose monitor was created has an entry; a monitor is
\* created only after the "watching" messages of its token went out, and a
\* "released" message goes only to a recipient who was sent the "watching"
\* message, for a token that was admitted and whose monitor was created.
C20_LifecycleOrder ==
    /\ \A i \in TokenIds :
          /\ releases[i] >= 1 => spawns[i] >= 1
          /\ (spawns[i] >= 1 \/ monPc[i] # "none") =>
                /\ admits[i] >= 1
                /\ i \in DOMAIN WATCHED_TOKENS
                /\ WATCHED_TOKENS[i].monitoring_started
                /\ \A u \in Range(USER_IDS) : Sends("watching", i, u) >= 1
          /\ i \in DOMAIN WATCHED_TOKENS =>
                (WATCHED_TOKENS[i].contract_address_sent =>
                    WATCHED_TOKENS[i].monitoring_started)
          /\ \A u \in Range(USER_IDS) :
                Sends("released", i, u) >= 1 =>
                    Sends("watching", i, u) >= 1 /\ spawns[i] >= 1
    /\ \A m \in DOMAIN sent :
          m.kind = "released" => m.tid \in DOMAIN WATCHED_TOKENS /\ admits[m.tid] >= 1

\* With recipients configured one token has gone through the whole
\* lifecycle while the other is in the registry with no monitor yet.
C20_Witness ==
    /\ USER_IDS # << >>
    /\ \E i, j \in DOMAIN WATCHED_TOKENS :
          /\ WATCHED_TOKENS[i].contract_address_sent /\ monPc[i] = "done"
          /\ Sends("released", i, USER_IDS[1]) = 1
          /\ ~WATCHED_TOKENS[j].monitoring_started /\ monPc[j] = "none"

====
